---------------------------- MODULE Spec2Model ----------------------------
(***************************************************************************)
(* scripts/export_model.py: the BLIP export pipeline.                      *)
(*                                                                         *)
(* The script is one straight-line module body: it loads the processor and *)
(* the composite model, exports the vision encoder and the text decoder to *)
(* ONNX, saves the tokenizer files (copying vocab.txt when it is missing), *)
(* and lists the output directory.  Nothing is caught: an exception raised *)
(* by any statement ends the process.                                      *)
(*                                                                         *)
(* The output directory "models" outlives the process, so the model runs   *)
(* the script up to MaxRuns times over the same directory.  A file's       *)
(* content is the number of the run that wrote it (0: the file is absent). *)
(*                                                                         *)
(* Library behaviour the script relies on, as modelled here:               *)
(*  - torch.nn.Module.__init__ leaves a new module in training mode, and   *)
(*    Module.train(mode) sets the mode of the module and of its children;  *)
(*  - torch.onnx.export traces first and writes the file(s) afterwards;    *)
(*    the TorchScript-based exporter puts the exported module in eval mode *)
(*    for the trace and afterwards restores the mode the module had on     *)
(*    entry (also when the trace raises); the torch.export-based exporter  *)
(*    leaves the mode alone.  Which one runs depends on the installed      *)
(*    torch, which the script does not pin: it is a choice per run;        *)
(*  - tokenizer.save_pretrained writes the tokenizer file and may or may   *)
(*    not write vocab.txt (the script itself provides for both);           *)
(*  - Path.stat raises on a dangling symbolic link.                        *)
(***************************************************************************)
EXTENDS Integers, Sequences, FiniteSets

\* The number of times the script is run over the same output directory.
MaxRuns == 2

-----------------------------------------------------------------------------
(* Output files (module docstring, lines 10-16) *)

VisionGraph == "blip_vision_encoder.onnx"
VisionData  == "blip_vision_encoder.onnx.data"
TextGraph   == "blip_text_decoder.onnx"
TextData    == "blip_text_decoder.onnx.data"
TokenizerFile == "tokenizer.json"
VocabFile   == "vocab.txt"

Artifacts == {VisionGraph, VisionData, TextGraph, TextData, TokenizerFile, VocabFile}

\* A file in the output directory that the script does not write.
OtherFile == "labels.txt"

\* The names in the order sorted(OUTPUT_DIR.iterdir()) yields them.
SortedNames ==
    <<TextGraph, TextData, VisionGraph, VisionData, OtherFile, TokenizerFile, VocabFile>>

-----------------------------------------------------------------------------
(* Synthetic inputs and export arguments *)

seq_len == 10

dummy_image == <<1, 3, 384, 384>>

dummy_input_ids == <<1, seq_len>>

dummy_attention_mask == <<1, seq_len>>

dummy_encoder_states == <<1, 577, 768>>

VisionDynamicAxes_extra ==
    {<<"pixel_values", 0>>, <<"pixel_values", 2>>, <<"image_features", 0>>}

VisionDynamicAxes == {<<"pixel_values", 0>>, <<"image_features", 0>>}

TextDynamicAxes ==
    {<<"input_ids", 0>>, <<"input_ids", 1>>,
     <<"attention_mask", 0>>, <<"attention_mask", 1>>,
     <<"encoder_hidden_states", 0>>,
     <<"logits", 0>>, <<"logits", 1>>}

\* The vision configuration a checkpoint can carry; the published checkpoint
\* of MODEL_ID has patch size 16 and hidden size 768.
Configs ==
    {[patch |-> 16, hidden |-> 768],
     [patch |-> 32, hidden |-> 768],
     [patch |-> 16, hidden |-> 1024]}

\* VisionEncoderWrapper.forward: the last hidden state of the vision model,
\* one vector per image patch plus the class token.
VisionOutShape(cfg, img) ==
    <<img[1], (img[3] \div cfg.patch) * (img[4] \div cfg.patch) + 1, cfg.hidden>>

\* super().__init__(): a new torch.nn.Module is in training mode.
WrapperInitTraining == TRUE

Backends == {"torchscript", "dynamo"}

-----------------------------------------------------------------------------
(* Console messages *)

MsgLoad       == "[1/5] Loading BLIP-base model"
MsgVision     == "[2/5] Exporting vision encoder"
MsgVisionOk   == "Vision encoder exported"
MsgText       == "[3/5] Exporting text decoder"
MsgTextOk     == "Text decoder exported"
MsgTokenizer  == "[4/5] Saving tokenizer files"
MsgTokenizerOk == "Tokenizer files saved"
MsgReport     == "[5/5] Export complete"
MsgNextStep   == "Next step: push models"

\* What a run that nothing stops prints, in order.
FullLog ==
    <<MsgLoad, MsgVision, MsgVisionOk, MsgText, MsgTextOk,
      MsgTokenizer, MsgTokenizerOk, MsgReport, MsgNextStep>>

-----------------------------------------------------------------------------
VARIABLES
    run,          \* the number of this run of the script
    backend,      \* the exporter the installed torch uses in this run
    pc,           \* the step about to run, or "done" / "aborted"
    dir,          \* OUTPUT_DIR: artifact name -> run that wrote it (0: absent)
    other,        \* OtherFile in OUTPUT_DIR: "none", "file" or "dangling"
    log,          \* the messages printed by this run
    manifest,     \* the file names the summary loop printed
    loaded,       \* processor and model are loaded
    config,       \* the vision configuration of the loaded checkpoint
    training,     \* the training flag of model, model.vision_model, model.text_decoder
    vision_graph, \* what the vision export of this run captured
    text_graph,   \* what the decoder export of this run captured
    tok,          \* what the tokenizer step of this run met and did
    failed,       \* the step that raised, or "none"
    error         \* the kind of error raised, or "none"

vars == <<run, backend, pc, dir, other, log, manifest, loaded, config, training,
          vision_graph, text_graph, tok, failed, error>>

NoConfig == [patch |-> 0, hidden |-> 0]

NoVisionGraph ==
    [done |-> FALSE, evalMode |-> FALSE, pixel_values |-> <<>>,
     image_features |-> <<>>, dyn |-> {}]

NoTextGraph ==
    [done |-> FALSE, evalMode |-> FALSE, input_ids |-> <<>>, attention_mask |-> <<>>,
     encoder_hidden_states |-> <<>>, dyn |-> {}]

NoTok == [ran |-> FALSE, produced |-> FALSE, srcAvail |-> FALSE, copied |-> FALSE]

\* The flags of a model that is not loaded yet (torch's default for a module).
NoTraining == [model |-> TRUE, vision |-> TRUE, text |-> TRUE]

Init ==
    /\ run = 1
    /\ backend \in Backends
    /\ dir = [f \in Artifacts |-> 0]
    /\ other \in {"none", "file", "dangling"}
    /\ pc = "load"
    /\ log = <<>>
    /\ manifest = <<>>
    /\ loaded = FALSE
    /\ config = NoConfig
    /\ training = NoTraining
    /\ vision_graph = NoVisionGraph
    /\ text_graph = NoTextGraph
    /\ tok = NoTok
    /\ failed = "none"
    /\ error = "none"

-----------------------------------------------------------------------------
(* Helpers *)

Range(s) == {s[i] : i \in 1..Len(s)}

Steps == <<"load", "vision", "decoder", "tokenizer", "report">>

StepIndex(s) == CHOOSE i \in 1..Len(Steps) : Steps[i] = s

\* The exception is caught and the script goes on with the next step.
Raise_continue(step, kind) ==
    /\ pc' = IF step = "report" THEN "done" ELSE Steps[StepIndex(step) + 1]
    /\ failed' = step
    /\ error' = kind

\* An exception raised in `step`: nothing catches it, the process ends.
Raise(step, kind) ==
    /\ pc' = "aborted"
    /\ failed' = step
    /\ error' = kind

\* The mode of sub-module `sub` while torch.onnx.export traces its wrapper.
ModeDuringTrace(sub) ==
    IF backend = "torchscript" THEN FALSE ELSE training[sub]

\* The flags after torch.onnx.export returns or raises: the TorchScript-based
\* exporter calls wrapper.train(<the wrapper's mode on entry>), which reaches the
\* wrapped sub-module.
ModeAfterExport(sub) ==
    IF backend = "torchscript"
    THEN [training EXCEPT ![sub] = WrapperInitTraining]
    ELSE training

Present_current(name) ==
    IF name = OtherFile THEN other # "none" ELSE dir[name] = run

Present(name) ==
    IF name = OtherFile THEN other # "none" ELSE dir[name] # 0

\* sorted(OUTPUT_DIR.iterdir())
Listing == SelectSeq(SortedNames, Present)

\* The entries of a listing before the first one that f.stat() raises on.
RECURSIVE UntilDangling(_)
UntilDangling(s) ==
    IF s = <<>> THEN <<>>
    ELSE IF Head(s) = OtherFile /\ other = "dangling" THEN <<>>
    ELSE <<Head(s)>> \o UntilDangling(Tail(s))

-----------------------------------------------------------------------------
(* [1/5] lines 30-33 *)

\* BlipProcessor.from_pretrained, BlipForConditionalGeneration.from_pretrained,
\* model.eval().
LoadModel ==
    /\ pc = "load"
    /\ log' = Append(log, MsgLoad)
    /\ \E c \in Configs : config' = c
    /\ loaded' = TRUE
    /\ training' = [model |-> FALSE, vision |-> FALSE, text |-> FALSE]
    /\ pc' = "vision"
    /\ UNCHANGED <<run, backend, dir, other, manifest, vision_graph, text_graph,
                   tok, failed, error>>

\* from_pretrained raises: MODEL_ID cannot be resolved or downloaded.
LoadModelFail ==
    /\ pc = "load"
    /\ log' = Append(log, MsgLoad)
    /\ Raise("load", "resolution")
    /\ UNCHANGED <<run, backend, dir, other, manifest, loaded, config, training,
                   vision_graph, text_graph, tok>>

-----------------------------------------------------------------------------
(* [2/5] lines 36-58 *)

\* The step after a vision export that returned.
AfterVision_skip == "tokenizer"

AfterVision_hang == "waiting"

AfterVision == "decoder"

\* torch.onnx.export(vision_wrapper, dummy_image, ...) returns; ext: the exporter
\* also writes the external-weights companion file.
ExportVision ==
    /\ pc = "vision"
    /\ \E ext \in BOOLEAN :
          dir' = [dir EXCEPT ![VisionGraph] = run,
                             ![VisionData] = IF ext THEN run ELSE @]
    /\ vision_graph' =
          [done |-> TRUE,
           evalMode |-> ~ModeDuringTrace("vision"),
           pixel_values |-> dummy_image,
           image_features |-> VisionOutShape(config, dummy_image),
           dyn |-> VisionDynamicAxes]
    /\ training' = ModeAfterExport("vision")
    /\ log' = log \o <<MsgVision, MsgVisionOk>>
    /\ pc' = AfterVision
    /\ UNCHANGED <<run, backend, other, manifest, loaded, config, text_graph,
                   tok, failed, error>>

\* OUTPUT_DIR after an export that raises while tracing: the exporter opens
\* its files only after the trace.
DirAfterTraceFail_partial(graph, data) == [dir EXCEPT ![data] = run]

DirAfterTraceFail(graph, data) == dir

\* torch.onnx.export(vision_wrapper, ...) raises while tracing.
ExportVisionFail ==
    /\ pc = "vision"
    /\ dir' = DirAfterTraceFail(VisionGraph, VisionData)
    /\ training' = ModeAfterExport("vision")
    /\ log' = Append(log, MsgVision)
    /\ Raise("vision", "trace")
    /\ UNCHANGED <<run, backend, other, manifest, loaded, config, vision_graph,
                   text_graph, tok>>

-----------------------------------------------------------------------------
(* [3/5] lines 61-95 *)

\* The decoder's cross-attention takes encoder states of the model's feature
\* width (any token count): other widths raise a shape mismatch in the trace.
TraceAccepts(enc) == enc[3] = config.hidden

\* torch.onnx.export(text_wrapper, (dummy_input_ids, dummy_attention_mask,
\* dummy_encoder_states), ...) returns.
ExportText ==
    /\ pc = "decoder"
    /\ TraceAccepts(dummy_encoder_states)
    /\ \E ext \in BOOLEAN :
          dir' = [dir EXCEPT ![TextGraph] = run,
                             ![TextData] = IF ext THEN run ELSE @]
    /\ text_graph' =
          [done |-> TRUE,
           evalMode |-> ~ModeDuringTrace("text"),
           input_ids |-> dummy_input_ids,
           attention_mask |-> dummy_attention_mask,
           encoder_hidden_states |-> dummy_encoder_states,
           dyn |-> TextDynamicAxes]
    /\ training' = ModeAfterExport("text")
    /\ log' = log \o <<MsgText, MsgTextOk>>
    /\ pc' = "tokenizer"
    /\ UNCHANGED <<run, backend, other, manifest, loaded, config, vision_graph,
                   tok, failed, error>>

\* torch.onnx.export(text_wrapper, ...) raises while tracing.
ExportTextFail ==
    /\ pc = "decoder"
    /\ dir' = DirAfterTraceFail(TextGraph, TextData)
    /\ training' = ModeAfterExport("text")
    /\ log' = Append(log, MsgText)
    /\ Raise("decoder", "trace")
    /\ UNCHANGED <<run, backend, other, manifest, loaded, config, vision_graph,
                   text_graph, tok>>

-----------------------------------------------------------------------------
(* [4/5] lines 98-108 *)

\* OUTPUT_DIR after processor.tokenizer.save_pretrained(str(OUTPUT_DIR)).
AfterSave(produced) ==
    [dir EXCEPT ![TokenizerFile] = run,
                ![VocabFile] = IF produced THEN run ELSE @]

\* not vocab_src.exists()
VocabMissing(d) == d[VocabFile] = 0

\* save_pretrained, then shutil.copy(Path(processor.tokenizer.vocab_file), vocab_src)
\* when vocab.txt does not exist.  produced: save_pretrained wrote vocab.txt;
\* srcAvail: the tokenizer's vocab_file names a readable file.
SaveTokenizer ==
    /\ pc = "tokenizer"
    /\ \E produced, srcAvail \in BOOLEAN :
          LET d == AfterSave(produced) IN
          /\ VocabMissing(d) => srcAvail
          /\ dir' = IF VocabMissing(d) THEN [d EXCEPT ![VocabFile] = run] ELSE d
          /\ tok' = [ran |-> TRUE, produced |-> produced, srcAvail |-> srcAvail,
                     copied |-> VocabMissing(d)]
    /\ log' = log \o <<MsgTokenizer, MsgTokenizerOk>>
    /\ pc' = "report"
    /\ UNCHANGED <<run, backend, other, manifest, loaded, config, training,
                   vision_graph, text_graph, failed, error>>

\* vocab.txt does not exist after save_pretrained and the copy raises.
SaveTokenizerFail ==
    /\ pc = "tokenizer"
    /\ \E produced \in BOOLEAN :
          LET d == AfterSave(produced) IN
          /\ VocabMissing(d)
          /\ dir' = d
          /\ tok' = [ran |-> TRUE, produced |-> produced, srcAvail |-> FALSE,
                     copied |-> FALSE]
    /\ log' = Append(log, MsgTokenizer)
    /\ Raise("tokenizer", "copy")
    /\ UNCHANGED <<run, backend, other, manifest, loaded, config, training,
                   vision_graph, text_graph>>

-----------------------------------------------------------------------------
(* [5/5] lines 111-121 *)

\* The summary loop prints every entry, then the closing message.
Report ==
    /\ pc = "report"
    /\ other # "dangling"
    /\ manifest' = Listing
    /\ log' = log \o <<MsgReport, MsgNextStep>>
    /\ pc' = "done"
    /\ UNCHANGED <<run, backend, dir, other, loaded, config, training,
                   vision_graph, text_graph, tok, failed, error>>

\* f.stat() raises on a dangling link: the entries before it were printed.
ReportFail ==
    /\ pc = "report"
    /\ other = "dangling"
    /\ manifest' = UntilDangling(Listing)
    /\ log' = Append(log, MsgReport)
    /\ Raise("report", "stat")
    /\ UNCHANGED <<run, backend, dir, other, loaded, config, training,
                   vision_graph, text_graph, tok>>

-----------------------------------------------------------------------------
\* The script is run again, in a new process, over the same output directory.
Rerun ==
    /\ pc \in {"done", "aborted"}
    /\ run < MaxRuns
    /\ run' = run + 1
    /\ backend' \in Backends
    /\ pc' = "load"
    /\ log' = <<>>
    /\ manifest' = <<>>
    /\ loaded' = FALSE
    /\ config' = NoConfig
    /\ training' = NoTraining
    /\ vision_graph' = NoVisionGraph
    /\ text_graph' = NoTextGraph
    /\ tok' = NoTok
    /\ failed' = "none"
    /\ error' = "none"
    /\ UNCHANGED <<dir, other>>

\* One statement group of the running script.
Step ==
    \/ LoadModel
    \/ LoadModelFail
    \/ ExportVision
    \/ ExportVisionFail
    \/ ExportText
    \/ ExportTextFail
    \/ SaveTokenizer
    \/ SaveTokenizerFail
    \/ Report
    \/ ReportFail

Next == Step \/ Rerun

Spec == Init /\ [][Next]_vars

\* The interpreter runs the next statement of a script that has not ended.
FairSpec == Spec /\ WF_vars(Step)

-----------------------------------------------------------------------------
(* Vocabulary used by the properties *)

Terminal == {"done", "aborted"}

\* The files each step writes and the messages it prints.
Written(s) ==
    CASE s = "vision"    -> {VisionGraph, VisionData}
      [] s = "decoder"   -> {TextGraph, TextData}
      [] s = "tokenizer" -> {TokenizerFile, VocabFile}
      [] OTHER           -> {}

StartMsg(s) ==
    CASE s = "load"      -> MsgLoad
      [] s = "vision"    -> MsgVision
      [] s = "decoder"   -> MsgText
      [] s = "tokenizer" -> MsgTokenizer
      [] OTHER           -> MsgReport

EndMsgs(s) ==
    CASE s = "vision"    -> {MsgVisionOk}
      [] s = "decoder"   -> {MsgTextOk}
      [] s = "tokenizer" -> {MsgTokenizerOk}
      [] s = "report"    -> {MsgNextStep}
      [] OTHER           -> {}

StepSet == Range(Steps)

Printed == Range(log)

\* The tokenizer step of this run returned.
TokenizerStepDone == tok.ran /\ failed # "tokenizer"

IsPrefix(s, t) == Len(s) <= Len(t) /\ s = SubSeq(t, 1, Len(s))

-----------------------------------------------------------------------------
\* C1: after a tokenizer step that returned, vocab.txt is in the output
\* directory; whenever save_pretrained did not produce vocab.txt the step copied
\* it from the tokenizer's source path; and when save_pretrained did not produce
\* it and the source is unavailable, the step raised and the report did not run.
C1_VocabProvidedOrFatal ==
    tok.ran =>
        /\ TokenizerStepDone =>
              /\ dir[VocabFile] # 0
              /\ ~tok.produced => tok.copied
        /\ (~tok.produced /\ ~tok.srcAvail) =>
              /\ pc = "aborted"
              /\ failed = "tokenizer"
              /\ MsgReport \notin Printed

-----------------------------------------------------------------------------
\* The state of a halted run: an error is recorded exactly when the run is
\* aborted; the failed step printed its opening message and no success message;
\* no later step printed anything or wrote a file in this run.
C2_Halted ==
    /\ (error # "none") <=> (pc = "aborted")
    /\ (error # "none") <=> (failed # "none")
    /\ pc = "aborted" =>
          /\ failed \in StepSet
          /\ StartMsg(failed) \in Printed
          /\ EndMsgs(failed) \cap Printed = {}
          /\ \A s \in StepSet :
                StepIndex(s) > StepIndex(failed) =>
                    /\ StartMsg(s) \notin Printed
                    /\ EndMsgs(s) \cap Printed = {}
                    /\ \A f \in Written(s) : dir[f] # run
          /\ failed # "report" => manifest = <<>>

\* C2: a step that fails halts the pipeline at that step: the error is never
\* dropped, no later step starts, writes an artifact or prints a message, and an
\* aborted run takes no further step (only a new run of the script follows).
C2_FailureHalts == [] C2_Halted /\ [][pc = "aborted" => run' # run]_vars

\* A decoder export failed in a second run: the tokenizer files are those of
\* the first run.
C2_Witness ==
    /\ pc = "aborted"
    /\ failed = "decoder"
    /\ run = 2
    /\ dir[VisionGraph] = 2
    /\ dir[TokenizerFile] = 1

-----------------------------------------------------------------------------
\* C3: a graph export whose trace fails writes no file of its stage, and a
\* stage's files are all-or-nothing: the graph file is of this run exactly when
\* the export returned, and a companion file of this run never stands beside a
\* graph that is not of this run.
C3_NoPartialExport ==
    /\ (failed = "vision" /\ error = "trace") =>
          \A f \in Written("vision") : dir[f] # run
    /\ (failed = "decoder" /\ error = "trace") =>
          \A f \in Written("decoder") : dir[f] # run
    /\ vision_graph.done <=> dir[VisionGraph] = run
    /\ text_graph.done <=> dir[TextGraph] = run
    /\ dir[VisionData] = run => dir[VisionGraph] = run
    /\ dir[TextData] = run => dir[TextGraph] = run

\* The vision trace failed in a run over a directory that holds an earlier
\* run's vision graph and companion.
C3_Witness ==
    /\ failed = "vision"
    /\ error = "trace"
    /\ run = 2
    /\ dir[VisionGraph] = 1
    /\ dir[VisionData] = 1

-----------------------------------------------------------------------------
Listed == Range(manifest)

Graphs == {VisionGraph, TextGraph}

Companions == {VisionData, TextData}

\* C4 (as claimed): after a successful run, whatever the directory held before,
\* the report lists the two graph files, at most two companion files, the
\* tokenizer file and the vocabulary file, and nothing else.
C4_OnlyArtifactsListed ==
    pc = "done" =>
        /\ Graphs \cup {TokenizerFile, VocabFile} \subseteq Listed
        /\ Listed \subseteq Artifacts

\* C4 (amended): after a successful run the report lists each entry once: the
\* two graph files, the companion files present (at most two), the tokenizer
\* file and the vocabulary file, and nothing else except a file of another name
\* that was in the directory before the run.
C4_ArtifactsAndOldFilesListed ==
    pc = "done" =>
        /\ Len(manifest) = Cardinality(Listed)
        /\ Listed \cap Graphs = Graphs
        /\ Listed \cap Companions = {f \in Companions : dir[f] # 0}
        /\ TokenizerFile \in Listed
        /\ VocabFile \in Listed
        /\ Listed \ Artifacts = (IF other = "file" THEN {OtherFile} ELSE {})

\* A second run completed over a directory with a foreign file, one stale
\* companion and none written by this run.
C4_Witness ==
    /\ pc = "done"
    /\ run = 2
    /\ other = "file"
    /\ dir[VisionData] = 1
    /\ dir[TextData] = 0
    /\ Len(manifest) = 6

-----------------------------------------------------------------------------
\* C5: after a successful run, each exported artifact (both graph files, the
\* tokenizer file, the vocabulary file) holds what the current run produced.
C5_OverwrittenOnRerun ==
    pc = "done" =>
        \A f \in Graphs \cup {TokenizerFile, VocabFile} : dir[f] = run

-----------------------------------------------------------------------------
\* The named tensors of each graph with their ranks.
VisionTensors == {"pixel_values", "image_features"}

TextTensors == {"input_ids", "attention_mask", "encoder_hidden_states", "logits"}

SeqTensors == {"input_ids", "attention_mask", "logits"}

TensorNames(dyn) == {p[1] : p \in dyn}

\* C6: the dynamic axes an export declares are exactly axis 0 of pixel_values
\* and image_features (vision graph), and axes 0 and 1 of input_ids,
\* attention_mask and logits plus axis 0 of encoder_hidden_states (decoder
\* graph); no other axis of a named tensor and no other tensor is declared.
C6_DynamicAxes ==
    /\ vision_graph.done =>
          /\ TensorNames(vision_graph.dyn) = VisionTensors
          /\ \A t \in VisionTensors : \A a \in 0..3 :
                (<<t, a>> \in vision_graph.dyn) <=> (a = 0)
          /\ vision_graph.dyn \subseteq VisionTensors \X (0..3)
    /\ text_graph.done =>
          /\ TensorNames(text_graph.dyn) = TextTensors
          /\ \A t \in TextTensors : \A a \in 0..3 :
                (<<t, a>> \in text_graph.dyn) <=>
                    (a = 0 \/ (a = 1 /\ t \in SeqTensors))
          /\ text_graph.dyn \subseteq TextTensors \X (0..3)

\* Both graphs were exported in this run.
C6_Witness == vision_graph.done /\ text_graph.done /\ pc = "tokenizer"

-----------------------------------------------------------------------------
\* C7: the steps run once each in the fixed order: what is printed is always a
\* prefix of the one full sequence of messages, each step's effect is there only
\* when the step before it completed, and the report's message is printed only
\* after all four earlier steps completed.
C7_FixedOrder ==
    /\ IsPrefix(log, FullLog)
    /\ vision_graph.done => loaded
    /\ text_graph.done => vision_graph.done /\ MsgVisionOk \in Printed
    /\ tok.ran => text_graph.done /\ MsgTextOk \in Printed
    /\ MsgReport \in Printed =>
          /\ loaded
          /\ vision_graph.done
          /\ text_graph.done
          /\ TokenizerStepDone
          /\ MsgTokenizerOk \in Printed
    /\ manifest # <<>> => MsgReport \in Printed
    /\ pc = "done" => log = FullLog

\* A run that went through all five steps.
C7_Witness == pc = "done" /\ log = FullLog /\ run = 2

-----------------------------------------------------------------------------
-----------------------------------------------------------------------------
\* C9: once loaded, the composite model and its two sub-modules are in
\* inference mode and stay so through every later step, and each trace ran in
\* inference mode.
C9_ModelStaysEval ==
    /\ loaded => training = [model |-> FALSE, vision |-> FALSE, text |-> FALSE]
    /\ vision_graph.done => vision_graph.evalMode
    /\ text_graph.done => text_graph.evalMode

-----------------------------------------------------------------------------
\* The two ends of a run: completed without error, or aborted with one.
C10_Outcome ==
    /\ pc \in {"load", "vision", "decoder", "tokenizer", "report"} \cup Terminal
    /\ pc = "done" => error = "none" /\ failed = "none" /\ log = FullLog
    /\ pc = "aborted" => error # "none" /\ MsgNextStep \notin Printed
    /\ error # "none" => pc = "aborted"

\* C10: every run ends, either completed (all five steps done, the closing
\* message printed, no error) or aborted on an error; a run is never in any
\* other state than one of the five steps or these two ends, and a run in which
\* an error occurred does not complete.
C10_Terminates ==
    /\ [] C10_Outcome
    /\ \A r \in 1..MaxRuns :
          (run = r /\ pc = "load") ~> (run = r /\ pc \in Terminal)

\* A second run that aborted after a first run that completed.
C10_Witness == run = 2 /\ pc = "aborted" /\ failed = "tokenizer" /\ dir[TextGraph] = 2

=============================================================================
